---- MODULE Spec2Model ----
(***************************************************************************)
(* The blog repository: two configuration entry files (src/main.ts and     *)
(* src/unnamed/part_000), each a module whose top level is one call        *)
(* blog({...}) on an object literal, and Markdown content files that start *)
(* with a front-matter block.                                              *)
(*                                                                         *)
(* An entry file is modelled by its syntax tree (imports and statements)   *)
(* and run by the evaluation order of the language: imports are bound,     *)
(* the object literal is built property by property in source order, an    *)
(* array literal element by element, and then the callee is invoked with   *)
(* the finished object.  Two runs are modelled side by side, each with its *)
(* own entry file and its own process environment.                         *)
(***************************************************************************)
EXTENDS Integers, Sequences, FiniteSets, TLC

VARIABLES entry, env, phase, bindings, ip, prop, elems, config, calls, thrown,
          served, file, pos, line, lineNo, attrs, status

runVars == <<entry, env, phase, bindings, ip, prop, elems, config, calls, thrown,
             served>>

\* The reading of one content file's front matter
contentVars == <<file, pos, line, lineNo, attrs, status>>

vars == <<entry, env, phase, bindings, ip, prop, elems, config, calls, thrown,
          served, file, pos, line, lineNo, attrs, status>>

(***************************************************************************)
(* Bounds of the process environment.                                      *)
(***************************************************************************)
MaxArgs == 1

\* Requests the engine handles in a run once it serves
MaxRequests == 1

Runs == {"run1", "run2"}

EntryFiles == {"src/main.ts", "src/unnamed/part_000"}

ArgWords == {"--dev"}

RECURSIVE ArgLists(_)
ArgLists(n) ==
    IF n = 0 THEN {<< >>}
    ELSE ArgLists(n - 1) \cup
         {Append(a, w) : a \in {b \in ArgLists(n - 1) : Len(b) = n - 1}, w \in ArgWords}

Environments ==
    [argv : ArgLists(MaxArgs),
     vars : {"", "BLOG_TITLE=Someone Else"},
     store : {"", "title: Persisted"}]

(***************************************************************************)
(* Syntax of the entry files.                                              *)
(***************************************************************************)
StringLiteral(s) == [node |-> "StringLiteral", text |-> s]
BooleanLiteral(b) == [node |-> "BooleanLiteral", value |-> b]
ArrayLiteral(es) == [node |-> "ArrayLiteral", elements |-> es]
ObjectLiteral(ps) == [node |-> "ObjectLiteral", properties |-> ps]
CallExpression(f, a) == [node |-> "CallExpression", callee |-> f, argument |-> a]
Property(k, e) == [key |-> k, init |-> e]

LinkLiteral(t, u) ==
    ObjectLiteral(<<Property("title", StringLiteral(t)),
                    Property("url", StringLiteral(u))>>)

\* The object literal of src/main.ts; its middlewares block is a comment
MainTsConfig ==
    <<Property("title", StringLiteral("Henok Tadesse")),
      Property("author", StringLiteral("Henok Tadesse")),
      Property("avatar", StringLiteral("avatar.jpg")),
      Property("avatarClass", StringLiteral("rounded-full")),
      Property("background", StringLiteral("#f9f9f9")),
      Property("links", ArrayLiteral(<<
        LinkLiteral("Email", "mailto:hegystyle@gmail.com"),
        LinkLiteral("Github", "https://github.com/HenokT")>>))>>

\* The object literal of src/unnamed/part_000; the elements of its
\* middlewares array are comments
Part000Config ==
    <<Property("author", StringLiteral("Henok Tadesse")),
      Property("title", StringLiteral("Henok Tadesse")),
      Property("description", StringLiteral(
        "A personal blog where I share what I learn as a sofware developer.")),
      Property("avatar", StringLiteral("avatar.jpg")),
      Property("avatarClass", StringLiteral("rounded-full")),
      Property("links", ArrayLiteral(<<
        LinkLiteral("Email", "mailto:hegystyle@gmail.com"),
        LinkLiteral("Github", "https://github.com/HenokT")>>)),
      Property("readtime", BooleanLiteral(TRUE)),
      Property("middlewares", ArrayLiteral(<< >>))>>

CallStatement(f, ps) == [kind |-> "call", callee |-> f, properties |-> ps]

(***************************************************************************)
(* Variants of the entry files, each one plausible slip away from the      *)
(* source; the properties below are checked to tell them apart.            *)
(***************************************************************************)
\* ps with the initialiser of key k replaced by e (appended when ps has no k)
WithProperty(ps, k, e) ==
    IF \E i \in 1..Len(ps) : ps[i].key = k
    THEN [i \in 1..Len(ps) |-> IF ps[i].key = k THEN Property(k, e) ELSE ps[i]]
    ELSE Append(ps, Property(k, e))

\* main.ts with the two links in the other order
MainTsLinksSwapped ==
    [imports |-> {"blog", "ga", "redirects"},
     body |-> <<CallStatement("blog",
                  WithProperty(MainTsConfig, "links", ArrayLiteral(<<
                    LinkLiteral("Github", "https://github.com/HenokT"),
                    LinkLiteral("Email", "mailto:hegystyle@gmail.com")>>)))>>]

\* main.ts with the middlewares block uncommented
MainTsMiddlewaresActive ==
    [imports |-> {"blog", "ga", "redirects"},
     body |-> <<CallStatement("blog",
                  WithProperty(MainTsConfig, "middlewares", ArrayLiteral(<<
                    CallExpression("ga", "UA-XXXXXXXX-X"),
                    CallExpression("redirects", "/hello_world.html")>>)))>>]

\* main.ts with the call statement repeated
MainTsCalledTwice ==
    [imports |-> {"blog", "ga", "redirects"},
     body |-> <<CallStatement("blog", MainTsConfig),
                CallStatement("blog", MainTsConfig)>>]

\* main.ts importing the named exports only, not the default export blog
MainTsBlogNotImported ==
    [imports |-> {"ga", "redirects"},
     body |-> <<CallStatement("blog", MainTsConfig)>>]

\* main.ts pointing at another avatar file
MainTsOtherAvatar ==
    [imports |-> {"blog", "ga", "redirects"},
     body |-> <<CallStatement("blog",
                  WithProperty(MainTsConfig, "avatar",
                               StringLiteral("avatar.png")))>>]

MainTs ==
    [imports |-> {"blog", "ga", "redirects"},
     body |-> <<CallStatement("blog", MainTsConfig)>>]

\* A statement that awaits a promise: the top level is suspended at it
AwaitStatement == [kind |-> "await"]

\* part_000 awaiting a promise before it calls blog
Part000AwaitsFirst ==
    [imports |-> {"blog"},
     body |-> <<AwaitStatement, CallStatement("blog", Part000Config)>>]

\* part_000 with the author's name misspelt
Part000AuthorTypo ==
    [imports |-> {"blog"},
     body |-> <<CallStatement("blog",
                  WithProperty(Part000Config, "author",
                               StringLiteral("Henok Tadese")))>>]

\* part_000 followed by a second call that configures another title
Part000SecondCall ==
    [imports |-> {"blog"},
     body |-> <<CallStatement("blog", Part000Config),
                CallStatement("blog",
                  WithProperty(Part000Config, "title", StringLiteral("Blog")))>>]

\* part_000 with the read-time flag written as a string
Part000ReadtimeString ==
    [imports |-> {"blog"},
     body |-> <<CallStatement("blog",
                  WithProperty(Part000Config, "readtime", StringLiteral("true")))>>]

Part000 ==
    [imports |-> {"blog"},
     body |-> <<CallStatement("blog", Part000Config)>>]

Module(f) == IF f = "src/main.ts" THEN MainTs ELSE Part000

(***************************************************************************)
(* Values and evaluation.                                                  *)
(***************************************************************************)
StringValue(s) == [kind |-> "string", str |-> s]
BooleanValue(b) == [kind |-> "boolean", bool |-> b]
ArrayValue(vs) == [kind |-> "array", items |-> vs]
ObjectValue(fs) == [kind |-> "object", fields |-> fs]
HandleValue(f) == [kind |-> "handle", fn |-> f]

EmptyObject == [k \in {} |-> StringValue("")]

\* obj with property k defined as v; a repeated key keeps the last value
Define(obj, k, v) ==
    [x \in DOMAIN obj \cup {k} |-> IF x = k THEN v ELSE obj[x]]

\* The value of an expression in process environment e with the imported
\* names b.  A literal's value is fixed by its text alone; a call yields the
\* handle its callee returns.
RECURSIVE Evaluate(_, _, _)
RECURSIVE EvaluateProperties(_, _, _, _)
RECURSIVE EvaluateElements(_, _, _)
EvaluateProperties(ps, obj, e, b) ==
    IF ps = << >> THEN obj
    ELSE EvaluateProperties(Tail(ps),
                            Define(obj, Head(ps).key, Evaluate(Head(ps).init, e, b)),
                            e, b)

EvaluateElements(es, e, b) ==
    IF es = << >> THEN << >>
    ELSE <<Evaluate(Head(es), e, b)>> \o EvaluateElements(Tail(es), e, b)

\* Evaluate with a string literal overridden by a set environment variable
EvaluateReadingEnv(x, e, b) ==
    CASE x.node = "StringLiteral" ->
           IF e.vars # "" THEN StringValue(e.vars) ELSE StringValue(x.text)
      [] x.node = "BooleanLiteral" -> BooleanValue(x.value)
      [] x.node = "ObjectLiteral" ->
           ObjectValue(EvaluateProperties(x.properties, EmptyObject, e, b))
      [] x.node = "ArrayLiteral" -> ArrayValue(EvaluateElements(x.elements, e, b))
      [] x.node = "CallExpression" -> HandleValue(x.callee)

Evaluate(x, e, b) ==
    CASE x.node = "StringLiteral" -> StringValue(x.text)
      [] x.node = "BooleanLiteral" -> BooleanValue(x.value)
      [] x.node = "ObjectLiteral" ->
           ObjectValue(EvaluateProperties(x.properties, EmptyObject, e, b))
      [] x.node = "ArrayLiteral" -> ArrayValue(EvaluateElements(x.elements, e, b))
      [] x.node = "CallExpression" -> HandleValue(x.callee)

\* The names an expression calls, in evaluation order
Callees(x) == IF x.node = "CallExpression" THEN <<x.callee>> ELSE << >>

Statement(r) == Module(entry[r]).body[ip[r]]
CurrentProperty(r) == Statement(r).properties[prop[r]]
IsArray(x) == x.node = "ArrayLiteral"

(***************************************************************************)
(* The state after process creation: nothing of the module has run.        *)
(***************************************************************************)
RunInit ==
    /\ entry \in [Runs -> EntryFiles]
    /\ env \in [Runs -> Environments]
    /\ phase = [r \in Runs |-> "start"]
    /\ bindings = [r \in Runs |-> {}]
    /\ ip = [r \in Runs |-> 1]
    /\ prop = [r \in Runs |-> 1]
    /\ elems = [r \in Runs |-> << >>]
    /\ config = [r \in Runs |-> EmptyObject]
    /\ calls = [r \in Runs |-> << >>]
    /\ thrown = [r \in Runs |-> "none"]
    /\ served = [r \in Runs |-> 0]

\* No content file is being read.
ContentIdle ==
    /\ file = "none"
    /\ pos = 1
    /\ line = << >>
    /\ lineNo = 1
    /\ attrs = << >>
    /\ status = "idle"

Init == RunInit /\ ContentIdle

\* The configs run r has passed to blog, in call order
HandedConfigs(r) ==
    LET bs == SelectSeq(calls[r], LAMBDA c : c.fn = "blog")
    IN [i \in 1..Len(bs) |-> bs[i].arg]

Handed(r) == HandedConfigs(r) # << >>

\* The static imports of the module are bound before its body runs.
LoadModule(r) ==
    /\ phase[r] = "start"
    /\ bindings' = [bindings EXCEPT ![r] = Module(entry[r]).imports]
    /\ phase' = [phase EXCEPT ![r] = "loaded"]
    /\ UNCHANGED <<entry, env, ip, prop, elems, config, calls, thrown>>
    /\ UNCHANGED <<served, contentVars>>

\* A statement starts.  A call statement looks up its callee and starts its
\* argument, an object literal, as a fresh empty object; an await suspends
\* the top level until the event loop resumes it.
BeginStatement(r) ==
    /\ phase[r] = "loaded"
    /\ ip[r] <= Len(Module(entry[r]).body)
    /\ IF Statement(r).kind = "await"
       THEN /\ phase' = [phase EXCEPT ![r] = "suspended"]
            /\ UNCHANGED <<config, prop, elems, thrown>>
       ELSE IF Statement(r).callee \in bindings[r]
       THEN /\ phase' = [phase EXCEPT ![r] = "building"]
            /\ config' = [config EXCEPT ![r] = EmptyObject]
            /\ prop' = [prop EXCEPT ![r] = 1]
            /\ elems' = [elems EXCEPT ![r] = << >>]
            /\ thrown' = thrown
       ELSE /\ phase' = [phase EXCEPT ![r] = "failed"]
            /\ thrown' = [thrown EXCEPT ![r] = "ReferenceError"]
            /\ UNCHANGED <<config, prop, elems>>
    /\ UNCHANGED <<entry, env, bindings, ip, calls>>
    /\ UNCHANGED <<served, contentVars>>

\* The next element of the array literal of the current property is
\* evaluated; a call among the elements invokes its callee.
EvalElement(r) ==
    /\ phase[r] = "building"
    /\ prop[r] <= Len(Statement(r).properties)
    /\ IsArray(CurrentProperty(r).init)
    /\ Len(elems[r]) < Len(CurrentProperty(r).init.elements)
    /\ LET x == CurrentProperty(r).init.elements[Len(elems[r]) + 1]
           v == Evaluate(x, env[r], bindings[r])
           fs == Callees(x)
       IN IF \A i \in 1..Len(fs) : fs[i] \in bindings[r]
          THEN /\ elems' = [elems EXCEPT ![r] = Append(@, v)]
               /\ calls' = [calls EXCEPT ![r] =
                              @ \o [i \in 1..Len(fs) |-> [fn |-> fs[i], arg |-> x.argument]]]
               /\ UNCHANGED <<phase, thrown>>
          ELSE /\ phase' = [phase EXCEPT ![r] = "failed"]
               /\ thrown' = [thrown EXCEPT ![r] = "ReferenceError"]
               /\ UNCHANGED <<elems, calls>>
    /\ UNCHANGED <<entry, env, bindings, ip, prop, config>>
    /\ UNCHANGED <<served, contentVars>>

\* The current property's value is complete and is defined on the object.
DefineProperty(r) ==
    /\ phase[r] = "building"
    /\ prop[r] <= Len(Statement(r).properties)
    /\ LET p == CurrentProperty(r)
       IN /\ IsArray(p.init) => Len(elems[r]) = Len(p.init.elements)
          /\ config' = [config EXCEPT ![r] =
                          Define(@, p.key,
                                 IF IsArray(p.init) THEN ArrayValue(elems[r])
                                 ELSE Evaluate(p.init, env[r], bindings[r]))]
    /\ prop' = [prop EXCEPT ![r] = @ + 1]
    /\ elems' = [elems EXCEPT ![r] = << >>]
    /\ UNCHANGED <<entry, env, phase, bindings, ip, calls, thrown>>
    /\ UNCHANGED <<served, contentVars>>

\* CallBlog inside a loop that never leaves the statement
CallBlogNoAdvance(r) ==
    /\ phase[r] = "building"
    /\ prop[r] > Len(Statement(r).properties)
    /\ Len(calls[r]) < 3
    /\ calls' = [calls EXCEPT ![r] =
                   Append(@, [fn |-> Statement(r).callee, arg |-> config[r]])]
    /\ phase' = [phase EXCEPT ![r] = "loaded"]
    /\ UNCHANGED <<entry, env, bindings, ip, prop, elems, config, thrown>>
    /\ UNCHANGED <<served, contentVars>>

\* CallBlog without waiting for the last property
CallBlogEarly(r) ==
    /\ phase[r] = "building"
    /\ prop[r] > 1
    /\ calls' = [calls EXCEPT ![r] =
                   Append(@, [fn |-> Statement(r).callee, arg |-> config[r]])]
    /\ ip' = [ip EXCEPT ![r] = @ + 1]
    /\ phase' = [phase EXCEPT ![r] = "loaded"]
    /\ UNCHANGED <<entry, env, bindings, prop, elems, config, thrown>>
    /\ UNCHANGED <<served, contentVars>>

\* Every property is defined: the callee is invoked with the object.
CallBlog(r) ==
    /\ phase[r] = "building"
    /\ prop[r] > Len(Statement(r).properties)
    /\ calls' = [calls EXCEPT ![r] =
                   Append(@, [fn |-> Statement(r).callee, arg |-> config[r]])]
    /\ ip' = [ip EXCEPT ![r] = @ + 1]
    /\ phase' = [phase EXCEPT ![r] = "loaded"]
    /\ UNCHANGED <<entry, env, bindings, prop, elems, config, thrown>>
    /\ UNCHANGED <<served, contentVars>>

\* No statement is left: the module's top level has ended and the process
\* belongs to the engine.
Finish(r) ==
    /\ phase[r] = "loaded"
    /\ ip[r] > Len(Module(entry[r]).body)
    /\ phase' = [phase EXCEPT ![r] = "done"]
    /\ UNCHANGED <<entry, env, bindings, ip, prop, elems, config, calls, thrown>>
    /\ UNCHANGED <<served, contentVars>>

\* A turn of the run's event loop, which takes a job only while the top level
\* is not running: a suspended top level is resumed after its await; after
\* the end of the top level the engine, once it has been handed a config,
\* handles a request.  The handler reads the config and writes none of the
\* run's state.
EventLoopTurn(r) ==
    /\ phase[r] \in {"suspended", "done"}
    /\ IF phase[r] = "suspended"
       THEN /\ phase' = [phase EXCEPT ![r] = "loaded"]
            /\ ip' = [ip EXCEPT ![r] = @ + 1]
            /\ UNCHANGED served
       ELSE /\ Handed(r)
            /\ served[r] < MaxRequests
            /\ served' = [served EXCEPT ![r] = @ + 1]
            /\ UNCHANGED <<phase, ip>>
    /\ UNCHANGED <<entry, env, bindings, prop, elems, config, calls, thrown>>
    /\ UNCHANGED contentVars

Builder(r) ==
    \/ BeginStatement(r)
    \/ EvalElement(r)
    \/ DefineProperty(r)
    \/ CallBlog(r)

Next ==
    \E r \in Runs :
        \/ LoadModule(r)
        \/ BeginStatement(r)
        \/ EvalElement(r)
        \/ DefineProperty(r)
        \/ CallBlog(r)
        \/ Finish(r)
        \/ EventLoopTurn(r)

Spec == Init /\ [][Next]_vars

\* Every step of a run is a step of its process's one thread, which runs the
\* module's top level to its end without waiting on anything.
RunStep(r) == LoadModule(r) \/ Builder(r) \/ Finish(r)

FairSpec == Spec /\ \A r \in Runs : WF_vars(RunStep(r))

(***************************************************************************)
(* The content files, and the reading of a front-matter block: a first     *)
(* line ---, then lines key: value, then a line --- that closes it.        *)
(***************************************************************************)
\* The characters of src/posts/jetpack-compose.md through the line that closes its
\* front matter:
\*   ---
\*   title: An Introduction to Android Jetpack Compose
\*   publish_date: 2022-06-10
\*   ---
JetpackComposeMd ==
    <<
      "-", "-", "-", "\n", "t", "i", "t", "l", "e", ":", " ", "A", "n", " ",
      "I", "n", "t", "r", "o", "d", "u", "c", "t", "i", "o", "n", " ", "t",
      "o", " ", "A", "n", "d", "r", "o", "i", "d", " ", "J", "e", "t", "p",
      "a", "c", "k", " ", "C", "o", "m", "p", "o", "s", "e", "\n", "p", "u",
      "b", "l", "i", "s", "h", "_", "d", "a", "t", "e", ":", " ", "2", "0",
      "2", "2", "-", "0", "6", "-", "1", "0", "\n", "-", "-", "-", "\n"
    >>

\* page-chat.md with a pathname that lacks its leading slash:
\*   pathname: "enhance-your-web-browsing-experience-with-pagechat-...
PageChatMdRelativePathname ==
    <<
      "-", "-", "-", "\n", "t", "i", "t", "l", "e", ":", " ", "\"", "E", "n",
      "h", "a", "n", "c", "e", " ", "Y", "o", "u", "r", " ", "W", "e", "b",
      " ", "B", "r", "o", "w", "s", "i", "n", "g", " ", "E", "x", "p", "e",
      "r", "i", "e", "n", "c", "e", " ", "w", "i", "t", "h", " ", "O", "u",
      "r", " ", "C", "h", "r", "o", "m", "e", " ", "E", "x", "t", "e", "n",
      "s", "i", "o", "n", ":", " ", "P", "a", "g", "e", "C", "h", "a", "t",
      "\"", "\n", "p", "a", "t", "h", "n", "a", "m", "e", ":", " ", "\"", "e",
      "n", "h", "a", "n", "c", "e", "-", "y", "o", "u", "r", "-", "w", "e",
      "b", "-", "b", "r", "o", "w", "s", "i", "n", "g", "-", "e", "x", "p",
      "e", "r", "i", "e", "n", "c", "e", "-", "w", "i", "t", "h", "-", "p",
      "a", "g", "e", "c", "h", "a", "t", "-", "o", "u", "r", "-", "c", "h",
      "r", "o", "m", "e", "-", "e", "x", "t", "e", "n", "s", "i", "o", "n",
      "-", "a", "n", "d", "-", "h", "o", "w", "-", "w", "e", "-", "b", "u",
      "i", "l", "t", "-", "i", "t", "\"", "\n", "p", "u", "b", "l", "i", "s",
      "h", "_", "d", "a", "t", "e", ":", " ", "2", "0", "2", "3", "-", "0",
      "6", "-", "0", "8", "\n", "-", "-", "-", "\n"
    >>

\* The characters of src/posts/page-chat.md through the line that closes its
\* front matter:
\*   ---
\*   title: "Enhance Your Web Browsing Experience with Our Chrome Extension: PageChat"
\*   pathname: "/enhance-your-web-browsing-experience-with-pagechat-our-chrome-extension-and-how-we-built-it"
\*   publish_date: 2023-06-08
\*   ---
PageChatMd ==
    <<
      "-", "-", "-", "\n", "t", "i", "t", "l", "e", ":", " ", "\"", "E", "n",
      "h", "a", "n", "c", "e", " ", "Y", "o", "u", "r", " ", "W", "e", "b",
      " ", "B", "r", "o", "w", "s", "i", "n", "g", " ", "E", "x", "p", "e",
      "r", "i", "e", "n", "c", "e", " ", "w", "i", "t", "h", " ", "O", "u",
      "r", " ", "C", "h", "r", "o", "m", "e", " ", "E", "x", "t", "e", "n",
      "s", "i", "o", "n", ":", " ", "P", "a", "g", "e", "C", "h", "a", "t",
      "\"", "\n", "p", "a", "t", "h", "n", "a", "m", "e", ":", " ", "\"", "/",
      "e", "n", "h", "a", "n", "c", "e", "-", "y", "o", "u", "r", "-", "w",
      "e", "b", "-", "b", "r", "o", "w", "s", "i", "n", "g", "-", "e", "x",
      "p", "e", "r", "i", "e", "n", "c", "e", "-", "w", "i", "t", "h", "-",
      "p", "a", "g", "e", "c", "h", "a", "t", "-", "o", "u", "r", "-", "c",
      "h", "r", "o", "m", "e", "-", "e", "x", "t", "e", "n", "s", "i", "o",
      "n", "-", "a", "n", "d", "-", "h", "o", "w", "-", "w", "e", "-", "b",
      "u", "i", "l", "t", "-", "i", "t", "\"", "\n", "p", "u", "b", "l", "i",
      "s", "h", "_", "d", "a", "t", "e", ":", " ", "2", "0", "2", "3", "-",
      "0", "6", "-", "0", "8", "\n", "-", "-", "-", "\n"
    >>

\* promise-all-settled.md dated the 31st of June: publish_date: 2022-06-31
PromiseAllSettledMdBadDate ==
    <<
      "-", "-", "-", "\n", "t", "i", "t", "l", "e", ":", " ", "A", " ", "b",
      "e", "t", "t", "e", "r", " ", "P", "r", "o", "m", "i", "s", "e", ".",
      "a", "l", "l", "\n", "p", "u", "b", "l", "i", "s", "h", "_", "d", "a",
      "t", "e", ":", " ", "2", "0", "2", "2", "-", "0", "6", "-", "3", "1",
      "\n", "-", "-", "-", "\n"
    >>

\* The characters of src/drafts/promise-all-settled.md through the line that closes its
\* front matter:
\*   ---
\*   title: A better Promise.all
\*   publish_date: 2022-06-22
\*   ---
PromiseAllSettledMd ==
    <<
      "-", "-", "-", "\n", "t", "i", "t", "l", "e", ":", " ", "A", " ", "b",
      "e", "t", "t", "e", "r", " ", "P", "r", "o", "m", "i", "s", "e", ".",
      "a", "l", "l", "\n", "p", "u", "b", "l", "i", "s", "h", "_", "d", "a",
      "t", "e", ":", " ", "2", "0", "2", "2", "-", "0", "6", "-", "2", "2",
      "\n", "-", "-", "-", "\n"
    >>

\* The characters of src/unnamed/part_001 through the line that closes its
\* front matter:
\*   ---
\*   title: Remembering the previous value of a prop or a state while using React Hooks
\*   publish_date: 2019-06-15
\*   ---
Part001Md ==
    <<
      "-", "-", "-", "\n", "t", "i", "t", "l", "e", ":", " ", "R", "e", "m",
      "e", "m", "b", "e", "r", "i", "n", "g", " ", "t", "h", "e", " ", "p",
      "r", "e", "v", "i", "o", "u", "s", " ", "v", "a", "l", "u", "e", " ",
      "o", "f", " ", "a", " ", "p", "r", "o", "p", " ", "o", "r", " ", "a",
      " ", "s", "t", "a", "t", "e", " ", "w", "h", "i", "l", "e", " ", "u",
      "s", "i", "n", "g", " ", "R", "e", "a", "c", "t", " ", "H", "o", "o",
      "k", "s", "\n", "p", "u", "b", "l", "i", "s", "h", "_", "d", "a", "t",
      "e", ":", " ", "2", "0", "1", "9", "-", "0", "6", "-", "1", "5", "\n",
      "-", "-", "-", "\n"
    >>

ContentFiles ==
    {"src/posts/jetpack-compose.md", "src/posts/page-chat.md",
     "src/drafts/promise-all-settled.md", "src/unnamed/part_001"}

Content(f) ==
    CASE f = "src/posts/jetpack-compose.md" -> JetpackComposeMd
      [] f = "src/posts/page-chat.md" -> PageChatMd
      [] f = "src/drafts/promise-all-settled.md" -> PromiseAllSettledMd
      [] f = "src/unnamed/part_001" -> Part001Md

Delimiter == <<"-", "-", "-">>
TitleKey == <<"t", "i", "t", "l", "e">>
PublishDateKey == <<"p", "u", "b", "l", "i", "s", "h", "_", "d", "a", "t", "e">>
PathnameKey == <<"p", "a", "t", "h", "n", "a", "m", "e">>

DigitChars == <<"0", "1", "2", "3", "4", "5", "6", "7", "8", "9">>
IsDigit(c) == \E i \in 1..10 : DigitChars[i] = c
DigitOf(c) == (CHOOSE i \in 1..10 : DigitChars[i] = c) - 1

\* The number written by a sequence of digits
RECURSIVE NumberOf(_)
NumberOf(cs) ==
    IF cs = << >> THEN 0
    ELSE 10 * NumberOf(SubSeq(cs, 1, Len(cs) - 1)) + DigitOf(cs[Len(cs)])

RECURSIVE Trim(_)
Trim(cs) ==
    IF cs = << >> THEN cs
    ELSE IF Head(cs) = " " THEN Trim(Tail(cs))
    ELSE IF cs[Len(cs)] = " " THEN Trim(SubSeq(cs, 1, Len(cs) - 1))
    ELSE cs

\* The places of a line where a colon ends the key: a colon followed by a
\* space or by the end of the line
KeyEnds(cs) ==
    {i \in 1..Len(cs) : cs[i] = ":" /\ (i = Len(cs) \/ cs[i + 1] = " ")}

Min(S) == CHOOSE x \in S : \A y \in S : x <= y

\* dddd-dd-dd
IsDateText(cs) ==
    /\ Len(cs) = 10
    /\ cs[5] = "-" /\ cs[8] = "-"
    /\ \A i \in {1, 2, 3, 4, 6, 7, 9, 10} : IsDigit(cs[i])

IsLeapYear(y) == (y % 4 = 0 /\ y % 100 # 0) \/ y % 400 = 0

DaysIn(y, m) ==
    IF m = 2 THEN (IF IsLeapYear(y) THEN 29 ELSE 28)
    ELSE IF m \in {4, 6, 9, 11} THEN 30 ELSE 31

IsCalendarDate(d) ==
    /\ d.month \in 1..12
    /\ d.day >= 1 /\ d.day <= DaysIn(d.year, d.month)

\* The value written by the text after a key: a quoted string without its
\* quotes, a date, or the text itself
ParseScalar(cs) ==
    IF Len(cs) >= 2 /\ cs[1] = "\"" /\ cs[Len(cs)] = "\""
    THEN [kind |-> "string", chars |-> SubSeq(cs, 2, Len(cs) - 1)]
    ELSE IF IsDateText(cs)
    THEN [kind |-> "date",
          year |-> NumberOf(SubSeq(cs, 1, 4)),
          month |-> NumberOf(SubSeq(cs, 6, 7)),
          day |-> NumberOf(SubSeq(cs, 9, 10))]
    ELSE [kind |-> "string", chars |-> cs]

\* The reading starts at the first character of one of the content files.
ContentStart ==
    /\ file \in ContentFiles
    /\ pos = 1
    /\ line = << >>
    /\ lineNo = 1
    /\ attrs = << >>
    /\ status = "scanning"

ContentInit == RunInit /\ ContentStart

\* A character that does not end the line is added to the current line.
ReadChar ==
    /\ status = "scanning"
    /\ pos <= Len(Content(file))
    /\ Content(file)[pos] # "\n"
    /\ line' = Append(line, Content(file)[pos])
    /\ pos' = pos + 1
    /\ UNCHANGED <<file, lineNo, attrs, status>>
    /\ UNCHANGED runVars

\* The line ends, at a line break or at the end of the file: the opening
\* line must be the delimiter, a later delimiter closes the block, and any
\* other line sets one key.
EndLine ==
    /\ status = "scanning"
    /\ pos > Len(Content(file)) \/ Content(file)[pos] = "\n"
    /\ IF pos > Len(Content(file))
       THEN /\ status' = "malformed"
            /\ UNCHANGED attrs
       ELSE IF lineNo = 1
       THEN /\ status' = IF line = Delimiter THEN "scanning" ELSE "no_front_matter"
            /\ UNCHANGED attrs
       ELSE IF line = Delimiter
       THEN /\ status' = "parsed"
            /\ UNCHANGED attrs
       ELSE IF KeyEnds(line) = {}
       THEN /\ status' = "malformed"
            /\ UNCHANGED attrs
       ELSE LET k == Min(KeyEnds(line))
                key == Trim(SubSeq(line, 1, k - 1))
                value == ParseScalar(Trim(SubSeq(line, k + 1, Len(line))))
            IN /\ attrs' = [x \in DOMAIN attrs \cup {key} |->
                              IF x = key THEN value ELSE attrs[x]]
               /\ status' = "scanning"
    /\ pos' = pos + 1
    /\ line' = << >>
    /\ lineNo' = lineNo + 1
    /\ UNCHANGED file
    /\ UNCHANGED runVars

ContentNext == ReadChar \/ EndLine

ContentSpec == ContentInit /\ [][ContentNext]_vars

(***************************************************************************)
(* What the engine has been handed.                                        *)
(***************************************************************************)
RunOf(f) == {r \in Runs : entry[r] = f}

Link(t, u) == ObjectValue([title |-> StringValue(t), url |-> StringValue(u)])

\* The transforms a config registers: the items of `middlewares`, none
\* when the config has no such key
Middlewares(c) ==
    IF "middlewares" \in DOMAIN c THEN c["middlewares"].items ELSE << >>

(***************************************************************************)
(* C1: every config handed to blog, by either entry file, has `links`      *)
(* equal to exactly the two entries Email (mailto:hegystyle@gmail.com) and *)
(* Github (https://github.com/HenokT), in that order and with no other     *)
(* entry.                                                                  *)
(***************************************************************************)
C1_LinksExact ==
    \A r \in Runs : \A i \in 1..Len(HandedConfigs(r)) :
        LET c == HandedConfigs(r)[i]
        IN /\ "links" \in DOMAIN c
           /\ c["links"] = ArrayValue(<<Link("Email", "mailto:hegystyle@gmail.com"),
                                        Link("Github", "https://github.com/HenokT")>>)

\* both entry files have built their links element by element and handed over
C1_Witness ==
    /\ \A f \in EntryFiles : \E r \in RunOf(f) : Handed(r)
    /\ \A r \in Runs : Len(HandedConfigs(r)[1]["links"].items) = 2

(***************************************************************************)
(* C2: in every config handed to blog, by either entry file, `title` and   *)
(* `author` are both the string "Henok Tadesse", hence equal.              *)
(***************************************************************************)
C2_TitleAuthor ==
    \A r \in Runs : \A i \in 1..Len(HandedConfigs(r)) :
        LET c == HandedConfigs(r)[i]
        IN /\ {"title", "author"} \subseteq DOMAIN c
           /\ c["title"] = StringValue("Henok Tadesse")
           /\ c["author"] = StringValue("Henok Tadesse")
           /\ c["title"] = c["author"]

\* part_000, which sets author before title, has handed over next to main.ts
C2_Witness ==
    \E r1, r2 \in Runs :
        /\ entry[r1] = "src/main.ts" /\ entry[r2] = "src/unnamed/part_000"
        /\ phase[r1] = "done" /\ phase[r2] = "done"
        /\ "author" \in DOMAIN HandedConfigs(r2)[1]

C4_FrontMatter ==
    /\ status \notin {"no_front_matter", "malformed"}
    /\ status = "scanning" => ENABLED ContentNext
    /\ status = "parsed" =>
         /\ {TitleKey, PublishDateKey} \subseteq DOMAIN attrs
         /\ attrs[TitleKey].kind = "string"
         /\ attrs[TitleKey].chars # << >>
         /\ attrs[PublishDateKey].kind = "date"
         /\ IsCalendarDate(attrs[PublishDateKey])

\* page-chat.md, whose title is quoted and holds a colon, is read to the end
C4_Witness ==
    /\ file = "src/posts/page-chat.md"
    /\ status = "parsed"
    /\ PathnameKey \in DOMAIN attrs
    /\ attrs[PublishDateKey] = [kind |-> "date", year |-> 2023, month |-> 6, day |-> 8]
    /\ Len(attrs[TitleKey].chars) = 72

(***************************************************************************)
(* C5: in every run the only external call the repository's code makes is  *)
(* blog, it is made at most once at any time, and a run whose top level    *)
(* has ended has made it exactly once.                                     *)
(***************************************************************************)
C5_BlogOnce ==
    \A r \in Runs :
        /\ \A i \in 1..Len(calls[r]) : calls[r][i].fn = "blog"
        /\ Len(calls[r]) <= 1
        /\ phase[r] \in {"done", "failed"} => Len(calls[r]) = 1
        /\ phase[r] = "start" => calls[r] = << >>

\* a run has ended with its one call made while the other has not called yet
C5_Witness ==
    \E r1, r2 \in Runs :
        /\ phase[r1] = "done" /\ Len(calls[r1]) = 1
        /\ phase[r2] = "building" /\ calls[r2] = << >>

(***************************************************************************)
(* C6: once a run has handed its config to blog, no step changes the       *)
(* config: the run's record and the record the engine was handed keep      *)
(* every field they had at the handoff.                                    *)
(***************************************************************************)
C6_NotMutatedAfterHandoff ==
    [][\A r \in Runs :
         Handed(r) => /\ config'[r] = config[r]
                      /\ HandedConfigs(r)'[1] = HandedConfigs(r)[1]
                      /\ HandedConfigs(r)[1] = config[r]]_vars

\* steps were taken after a handoff: the run ended, the other is still building
C6_Witness ==
    \E r1, r2 \in Runs :
        /\ Handed(r1) /\ phase[r1] = "done"
        /\ config[r1] = HandedConfigs(r1)[1]
        /\ phase[r2] = "building" /\ prop[r2] > 1

(***************************************************************************)
(* C7 as stated: every handed config carries title, author, avatar and     *)
(* avatar class strings, links as a sequence of {title, url} string        *)
(* records, a boolean read-time flag and a middlewares sequence; only      *)
(* description and the background colour may be absent.                    *)
(***************************************************************************)
IsString(v) == v.kind = "string"
IsBoolean(v) == v.kind = "boolean"
IsArray_(v) == v.kind = "array"
IsLink(v) ==
    /\ v.kind = "object"
    /\ DOMAIN v.fields = {"title", "url"}
    /\ IsString(v.fields["title"])
    /\ IsString(v.fields["url"])

\* c has every key of req, no key outside req and opt, and each key it has
\* holds a value of the data model's type
Conforms(c, req, opt) ==
    /\ req \subseteq DOMAIN c
    /\ DOMAIN c \subseteq req \cup opt
    /\ \A k \in DOMAIN c \cap {"title", "author", "avatar", "avatarClass",
                                 "description", "background"} : IsString(c[k])
    /\ "links" \in DOMAIN c =>
         /\ IsArray_(c["links"])
         /\ \A i \in 1..Len(c["links"].items) : IsLink(c["links"].items[i])
    /\ "readtime" \in DOMAIN c => IsBoolean(c["readtime"])
    /\ "middlewares" \in DOMAIN c => IsArray_(c["middlewares"])

C7_AsStated ==
    \A r \in Runs : \A i \in 1..Len(HandedConfigs(r)) :
        Conforms(HandedConfigs(r)[i],
                 {"title", "author", "avatar", "avatarClass", "links",
                  "readtime", "middlewares"},
                 {"description", "background"})

(***************************************************************************)
(* C7 amended: every handed config carries title, author, avatar and       *)
(* avatar class strings and links as a sequence of {title, url} string     *)
(* records; description, the background colour, the boolean read-time      *)
(* flag and the middlewares sequence may each be absent, and have the      *)
(* data model's type when present.                                         *)
(***************************************************************************)
C7_DataModel ==
    \A r \in Runs : \A i \in 1..Len(HandedConfigs(r)) :
        Conforms(HandedConfigs(r)[i],
                 {"title", "author", "avatar", "avatarClass", "links"},
                 {"description", "background", "readtime", "middlewares"})

\* main.ts has handed over without a read-time flag, part_000 with one
C7_Witness ==
    \E r1, r2 \in Runs :
        /\ Handed(r1) /\ Handed(r2)
        /\ "readtime" \notin DOMAIN HandedConfigs(r1)[1]
        /\ "background" \in DOMAIN HandedConfigs(r1)[1]
        /\ "readtime" \in DOMAIN HandedConfigs(r2)[1]
        /\ "description" \in DOMAIN HandedConfigs(r2)[1]

(***************************************************************************)
(* C8: no run ever fails or throws: until its top level has ended a run    *)
(* always has a next step, and at the end the engine holds a config.       *)
(***************************************************************************)
C8_NoErrorOutcome ==
    \A r \in Runs :
        /\ phase[r] # "failed"
        /\ thrown[r] = "none"
        /\ phase[r] # "done" => ENABLED RunStep(r)
        /\ phase[r] = "done" => Handed(r)

\* both runs looked up their callee, built the object and handed it over
C8_Witness ==
    \A r \in Runs :
        /\ phase[r] = "done" /\ thrown[r] = "none"
        /\ "blog" \in bindings[r]
        /\ Handed(r)

(***************************************************************************)
(* C9: two runs of the same entry file hand blog equal configs, field for  *)
(* field, whatever arguments, environment variables and stored state each  *)
(* was started with.                                                       *)
(***************************************************************************)
C9_EnvironmentIndependent ==
    \A r1, r2 \in Runs :
        (entry[r1] = entry[r2] /\ Handed(r1) /\ Handed(r2))
            => HandedConfigs(r1) = HandedConfigs(r2)

\* two runs of one entry file, started in environments that differ in
\* arguments, variables and stored state, have both handed over
C9_Witness ==
    \E r1, r2 \in Runs :
        /\ entry[r1] = entry[r2]
        /\ env[r1].argv # env[r2].argv
        /\ env[r1].vars # env[r2].vars
        /\ env[r1].store # env[r2].store
        /\ Handed(r1) /\ Handed(r2)

(***************************************************************************)
(* C10: every run eventually reaches the state in which blog has been      *)
(* handed the config, and from the handoff on no builder step of that run  *)
(* (starting a statement, evaluating an element, defining a property,      *)
(* calling blog) is enabled again.                                         *)
(***************************************************************************)
C10_RunsOnceThenStops ==
    /\ \A r \in Runs : <>Handed(r)
    /\ [](\A r \in Runs : Handed(r) => ~ENABLED Builder(r))

\* both runs are past the handoff with nothing of the builder left to do
C10_Witness ==
    \A r \in Runs :
        /\ Handed(r)
        /\ ip[r] > Len(Module(entry[r]).body)
        /\ ~ENABLED Builder(r)

(***************************************************************************)
(* C11: blog is never invoked before the config is complete: a run that    *)
(* has not started has built and handed over nothing, a run that is still  *)
(* building has handed over nothing, and the one record a run hands over   *)
(* is the value of the whole object literal, every property and every      *)
(* element of links and middlewares included.                              *)
(***************************************************************************)
\* The value of the object literal of statement i of entry file f
WholeLiteral(f, i, e, b) ==
    Evaluate(ObjectLiteral(Module(f).body[i].properties), e, b).fields

C11_HandoffAfterConstruction ==
    \A r \in Runs :
        /\ phase[r] = "start" => (calls[r] = << >> /\ config[r] = EmptyObject)
        /\ phase[r] = "building" => ~Handed(r)
        /\ Len(HandedConfigs(r)) <= 1
        /\ \A i \in 1..Len(HandedConfigs(r)) :
             HandedConfigs(r)[i] =
                 WholeLiteral(entry[r], i, env[r], bindings[r])

\* one run holds a half-built record (links not yet defined) that the engine
\* has not seen, the other has handed over its finished record
C11_Witness ==
    \E r1, r2 \in Runs :
        /\ phase[r1] = "building" /\ "title" \in DOMAIN config[r1]
        /\ "links" \notin DOMAIN config[r1] /\ Len(elems[r1]) = 1
        /\ calls[r1] = << >>
        /\ Handed(r2) /\ "links" \in DOMAIN HandedConfigs(r2)[1]

(***************************************************************************)
(* C12: construction and handoff run in one thread without a suspension    *)
(* point: no run is ever suspended, before its handoff no event-loop job   *)
(* (a resumed await, a request handler of the engine) can run and no       *)
(* request has been handled, and a builder step and an event-loop job of   *)
(* one run are never enabled together, so nothing the builder writes is    *)
(* shared with the engine's request handling.                              *)
(***************************************************************************)
C12_NoInterleaving ==
    \A r \in Runs :
        /\ phase[r] # "suspended"
        /\ ~Handed(r) => (served[r] = 0 /\ ~ENABLED EventLoopTurn(r))
        /\ ~(ENABLED (LoadModule(r) \/ Builder(r)) /\ ENABLED EventLoopTurn(r))
        /\ served[r] > 0 => (phase[r] = "done" /\ config[r] = HandedConfigs(r)[1])

\* the engine of one run has handled a request while the other run is still
\* building its config
C12_Witness ==
    \E r1, r2 \in Runs :
        /\ served[r1] = MaxRequests /\ phase[r1] = "done"
        /\ phase[r2] = "building" /\ served[r2] = 0
        /\ ~ENABLED EventLoopTurn(r2)

(***************************************************************************)
(* C13: the front matter of every content file holds only the keys title,  *)
(* publish_date and pathname; pathname is optional, and where a file has   *)
(* it, it is a non-empty string that begins with "/".                      *)
(***************************************************************************)
C13_RecognisedKeys ==
    /\ DOMAIN attrs \subseteq {TitleKey, PublishDateKey, PathnameKey}
    /\ PathnameKey \in DOMAIN attrs =>
         /\ attrs[PathnameKey].kind = "string"
         /\ attrs[PathnameKey].chars # << >>
         /\ Head(attrs[PathnameKey].chars) = "/"
    /\ status \notin {"no_front_matter", "malformed"}

\* page-chat.md has been read to its closing line with all three keys
C13_Witness ==
    /\ file = "src/posts/page-chat.md"
    /\ status = "parsed"
    /\ DOMAIN attrs = {TitleKey, PublishDateKey, PathnameKey}
    /\ Len(attrs[PathnameKey].chars) = 92
    /\ pos > Len(PageChatMd)

(***************************************************************************)
(* C14: the configs handed over by main.ts and by part_000 agree on every  *)
(* field the spec pins down: title, author, avatar, avatar class and the   *)
(* links sequence are present and equal in both; a key that one has and    *)
(* the other lacks, or that differs, is one of description, background,    *)
(* readtime and middlewares, and a middlewares list that is present is     *)
(* empty.                                                                  *)
(***************************************************************************)
PinnedKeys == {"title", "author", "avatar", "avatarClass", "links"}
FreeKeys == {"description", "background", "readtime", "middlewares"}

C14_EntryFilesAgree ==
    \A r1, r2 \in Runs :
        (entry[r1] # entry[r2] /\ Handed(r1) /\ Handed(r2)) =>
            LET c1 == HandedConfigs(r1)[1]
                c2 == HandedConfigs(r2)[1]
            IN /\ PinnedKeys \subseteq DOMAIN c1 \cap DOMAIN c2
               /\ \A k \in PinnedKeys : c1[k] = c2[k]
               /\ \A k \in (DOMAIN c1 \cup DOMAIN c2) \ FreeKeys :
                    k \in DOMAIN c1 \cap DOMAIN c2 /\ c1[k] = c2[k]
               /\ Middlewares(c1) = << >> /\ Middlewares(c2) = << >>

\* a run of each entry file has handed over, and the two configs do differ in
\* the fields left free
C14_Witness ==
    \E r1, r2 \in Runs :
        /\ entry[r1] = "src/main.ts" /\ entry[r2] = "src/unnamed/part_000"
        /\ Handed(r1) /\ Handed(r2)
        /\ HandedConfigs(r1)[1] # HandedConfigs(r2)[1]
        /\ DOMAIN HandedConfigs(r1)[1] \ DOMAIN HandedConfigs(r2)[1] = {"background"}
        /\ DOMAIN HandedConfigs(r2)[1] \ DOMAIN HandedConfigs(r1)[1]
              = {"description", "readtime", "middlewares"}

====
